---- MODULE Spec2Model ----
(***************************************************************************)
(* Model of the storefront in src/app.py: the session cart, the pricing    *)
(* helper, the order materializer (create_order), the admin catalog        *)
(* handlers and the order status handler.                                  *)
(*                                                                         *)
(* Money is kept in integer cents (Decimal values with two places).  One   *)
(* visitor session is modelled.  Admin handlers are modelled for requests  *)
(* that pass @login_required; an unauthenticated request is redirected and *)
(* changes nothing.  DATABASE_URL selects the relational store: a new      *)
(* Product takes an id above every id present (SQLite: the largest plus    *)
(* one; PostgreSQL: the next value of its sequence), and deleting a        *)
(* Product that OrderItem rows refer to succeeds where foreign keys are    *)
(* not enforced (SQLite) and fails the request where they are.             *)
(*                                                                         *)
(* Each handler is one atomic action.  For runs with several workers,      *)
(* create_order is also given in two steps (create_order_read and          *)
(* create_order_commit) with the variable inflight holding its locals in   *)
(* between; the other specifications leave inflight at NoRequest.          *)
(***************************************************************************)
EXTENDS Integers, Sequences, FiniteSets, TLC

VARIABLES products, images, cart, orders, order_items, pct, resp, inflight

vars == <<products, images, cart, orders, order_items, pct, resp, inflight>>

(***************************************************************************)
(* Bounds of the model.                                                    *)
(***************************************************************************)
MaxProductId == 2      \* product ids are 1..MaxProductId
MaxImages == 1         \* ProductImage rows ever present at once
MaxOrders == 2         \* Order rows
MaxOrderItems == 2     \* OrderItem rows
MaxCartQty == 2        \* cap of an accumulated cart quantity (Spec)
MaxCartQtyWide == 200  \* cap of an accumulated cart quantity (SpecCart)
MaxPriceCents == 120   \* largest product price drawn in SpecPrice

(***************************************************************************)
(* Program constants.                                                      *)
(***************************************************************************)
QtyMin == 1            \* max(1, ...) in cart_add / cart_update
QtyMax == 99           \* min(qty, 99) in cart_add / cart_update
SeedPrice == 12000     \* Decimal("120.00") of the seeded catalog
DefaultStatus == "Aguardando pagamento"
SeedName == "Bolsa"

\* The values of PIX_DISCOUNT_PERCENT the shop is started with: the default
\* and a discount.
PixPercents == {0, 15}

ProductIds == 1..MaxProductId

(***************************************************************************)
(* Text helpers.  str.strip() on the form values the model submits.        *)
(***************************************************************************)
Strip(s) ==
    CASE s = " "      -> ""
      [] s = " Ana "  -> "Ana"
      [] s = " Nova " -> "Nova"
      [] s = " Pago " -> "Pago"
      [] s = "119 "   -> "119"
      [] OTHER        -> s

\* str(product_id): the cart key cart_add writes.
Str(n) == ToString(n)

\* The session cart's keys: str(id) of a route id, or whatever follows
\* "qty_" in a submitted field name.  "x" is a key int() cannot parse.
CartKeys == {Str(n) : n \in ProductIds} \cup {"x"}

\* int(pid_str) succeeds?
IsIntKey(k) == \E n \in ProductIds : Str(n) = k

\* int(pid_str)
IntOfKey(k) == CHOOSE n \in ProductIds : Str(n) = k

(***************************************************************************)
(* Decimal.quantize(Decimal("0.01")) under the default context: the value  *)
(* num/den cents rounded to a whole cent, ties to the even cent            *)
(* (ROUND_HALF_EVEN).                                                      *)
(***************************************************************************)
Quantize(num, den) ==
    LET q == num \div den
        r == num % den
    IN  IF 2 * r < den THEN q
        ELSE IF 2 * r > den THEN q + 1
        ELSE IF q % 2 = 0 THEN q ELSE q + 1

\* PixDiscount rounding every fraction of a cent up.
PixDiscountCeiling(price, p) ==
    IF p <= 0 THEN price
    ELSE -((-(price * (100 - p))) \div 100)

\* price_with_pix_discount(price) for the configured percent p.
PixDiscount(price, p) ==
    IF p <= 0 THEN price
    ELSE Quantize(price * (100 - p), 100)

price_with_pix_discount(price) == PixDiscount(price, pct)

(***************************************************************************)
(* Form values.  A quantity field is absent/empty, unparsable or an        *)
(* integer; a price field is absent/empty, unparsable or a number given in *)
(* thousandths of the currency unit ("," and "." both read as the decimal  *)
(* point).                                                                 *)
(***************************************************************************)
QtyInt(v) == [kind |-> "int", v |-> v]
QtyBad    == [kind |-> "bad", v |-> 0]
QtyEmpty  == [kind |-> "empty", v |-> 0]

Clamp(q) == IF q < QtyMin THEN QtyMin ELSE IF q > QtyMax THEN QtyMax ELSE q

PriceNum(m) == [kind |-> "num", mills |-> m]
PriceBad    == [kind |-> "bad", mills |-> 0]
PriceEmpty  == [kind |-> "empty", mills |-> 0]

\* Decimal(price).quantize(Decimal("0.01")) raises?
PriceRaises(raw) == raw.kind = "bad"

\* Decimal(price).quantize(Decimal("0.01")), in cents.
PriceOf(raw) == IF raw.kind = "empty" THEN 0 ELSE Quantize(raw.mills, 10)

(***************************************************************************)
(* The session cart: a function from the keys present to quantities.       *)
(***************************************************************************)
EmptyCart == [k \in {} |-> 0]

CartPut(c, k, q) == [j \in DOMAIN c \cup {k} |-> IF j = k THEN q ELSE c[j]]

CartPop(c, k) == [j \in DOMAIN c \ {k} |-> c[j]]

\* What a handler answers: the HTTP status, the flashed message and, for the
\* handlers the properties look at, the request's form and the rendered data.
NoArg == [none |-> TRUE]

ResponseWith(op, status, flash, arg) ==
    [op |-> op, status |-> status, flash |-> flash, arg |-> arg]

Response(op, status, flash) == ResponseWith(op, status, flash, NoArg)

\* No create_order request is between its reads and its commit.
NoRequest == [none |-> TRUE]

RECURSIVE SetToSeq(_)
\* The order in which a dict's keys are visited.
SetToSeq(S) ==
    IF S = {} THEN <<>>
    ELSE LET k == CHOOSE x \in S : TRUE IN <<k>> \o SetToSeq(S \ {k})

RECURSIVE SumOver(_, _)
SumOver(S, f) ==
    IF S = {} THEN 0
    ELSE LET k == CHOOSE x \in S : TRUE IN f[k] + SumOver(S \ {k}, f)

MaxOf(S) == IF S = {} THEN 0 ELSE CHOOSE m \in S : \A n \in S : n <= m

Init ==
    /\ products = [i \in ProductIds |->
                     [name |-> SeedName, price |-> SeedPrice, is_active |-> TRUE]]
    /\ images = {}
    /\ cart = EmptyCart
    /\ orders = <<>>
    /\ order_items = <<>>
    /\ pct \in PixPercents
    /\ resp = Response("start", 200, "")
    /\ inflight = NoRequest

(***************************************************************************)
(* GET /carrinho                                                           *)
(***************************************************************************)
\* The loop of cart_view, checkout and create_order over c.items(): the
\* lines kept, as key -> [product_id, qty, subtotal] records.  A price has
\* two places, so price * qty is a whole number of cents and the quantize
\* of the subtotal leaves it as it is.
CartLines(c, prods) ==
    LET kept == {k \in DOMAIN c :
                    /\ IntOfKey(k) \in DOMAIN prods
                    /\ prods[IntOfKey(k)].is_active}
    IN  [k \in kept |->
            [product_id |-> IntOfKey(k),
             qty        |-> c[k],
             subtotal   |-> prods[IntOfKey(k)].price * c[k]]]

\* total += subtotal over the kept lines.
CartTotal(lines) == SumOver(DOMAIN lines, [k \in DOMAIN lines |-> lines[k].subtotal])

\* int(pid_str) raises ValueError on some key of the cart.
CartRaises(c) == \E k \in DOMAIN c : ~IsIntKey(k)

cart_view ==
    /\ UNCHANGED <<products, images, cart, orders, order_items, pct, inflight>>
    /\ IF CartRaises(cart)
       THEN resp' = Response("cart_view", 500, "")
       ELSE LET lines == CartLines(cart, products)
            IN  resp' = ResponseWith("cart_view", 200, "",
                                     [items |-> lines, total |-> CartTotal(lines)])

(***************************************************************************)
(* POST /carrinho/add/<product_id>                                         *)
(***************************************************************************)
cart_add(product_id, raw, cap) ==
    /\ UNCHANGED <<products, images, orders, order_items, pct, inflight>>
    /\ IF product_id \notin DOMAIN products \/ ~products[product_id].is_active
       THEN /\ resp' = Response("cart_add", 404, "")
            /\ UNCHANGED cart
       ELSE IF raw.kind = "bad"
       THEN /\ resp' = Response("cart_add", 500, "")
            /\ UNCHANGED cart
       ELSE LET qty == Clamp(IF raw.kind = "empty" THEN 1 ELSE raw.v)
                key == Str(product_id)
                old == IF key \in DOMAIN cart THEN cart[key] ELSE 0
            IN  /\ old + qty <= cap
                /\ cart' = CartPut(cart, key, old + qty)
                /\ resp' = Response("cart_add", 302, "Adicionado ao carrinho")

(***************************************************************************)
(* POST /carrinho/update.  The form is a function from field names to raw  *)
(* values; a field name is [qty, pid]: whether it starts with "qty_", and  *)
(* what is left of it once "qty_" is removed.                              *)
(***************************************************************************)
Field(isQty, pid) == [qty |-> isQty, pid |-> pid]

\* UpdateLine storing the parsed quantity without the clamp.
UpdateLineNoClamp(c, field, val) ==
    IF ~field.qty THEN c
    ELSE LET q == IF val.kind = "int" THEN val.v ELSE 1
         IN  IF q <= 0 THEN CartPop(c, field.pid)
             ELSE CartPut(c, field.pid, q)

\* One round of the loop over request.form.items().
UpdateLine(c, field, val) ==
    IF ~field.qty THEN c
    ELSE LET q == IF val.kind = "int" THEN val.v ELSE 1
         IN  IF q <= 0 THEN CartPop(c, field.pid)
             ELSE CartPut(c, field.pid, Clamp(q))

RECURSIVE UpdateAll(_, _, _)
UpdateAll(c, form, fields) ==
    IF fields = <<>> THEN c
    ELSE UpdateAll(UpdateLine(c, Head(fields), form[Head(fields)]), form, Tail(fields))

cart_update(form) ==
    /\ cart' = UpdateAll(cart, form, SetToSeq(DOMAIN form))
    /\ resp' = ResponseWith("cart_update", 302, "Carrinho atualizado", [form |-> form])
    /\ UNCHANGED <<products, images, orders, order_items, pct, inflight>>

(***************************************************************************)
(* GET /carrinho/limpar                                                    *)
(***************************************************************************)
cart_clear ==
    /\ cart' = EmptyCart
    /\ resp' = Response("cart_clear", 302, "Carrinho esvaziado")
    /\ UNCHANGED <<products, images, orders, order_items, pct, inflight>>

(***************************************************************************)
(* GET /checkout                                                           *)
(***************************************************************************)
checkout ==
    /\ UNCHANGED <<products, images, cart, orders, order_items, pct, inflight>>
    /\ IF CartRaises(cart)
       THEN resp' = Response("checkout", 500, "")
       ELSE LET lines == CartLines(cart, products)
                total == CartTotal(lines)
            IN  IF DOMAIN lines = {}
                THEN resp' = Response("checkout", 302, "Seu carrinho esta vazio.")
                ELSE resp' = ResponseWith("checkout", 200, "",
                                [items     |-> lines,
                                 total     |-> total,
                                 total_pix |-> price_with_pix_discount(total)])

(***************************************************************************)
(* POST /pedido/criar.  form = [customer_name, whatsapp, payment_method].  *)
(***************************************************************************)
\* payment_method not in ("pix", "card") falls back to "pix".
PaymentMethod(raw) == IF raw \in {"pix", "card"} THEN raw ELSE "pix"

\* NewOrder charging the discounted total whatever the payment method.
NewOrderAlwaysDiscounted(form, total) ==
    [customer_name   |-> Strip(form.customer_name),
     whatsapp        |-> Strip(form.whatsapp),
     payment_method  |-> PaymentMethod(form.payment_method),
     amount          |-> price_with_pix_discount(total),
     amount_original |-> total,
     status          |-> DefaultStatus]

\* The Order row of lines 311-322.
NewOrder(form, total) ==
    [customer_name   |-> Strip(form.customer_name),
     whatsapp        |-> Strip(form.whatsapp),
     payment_method  |-> PaymentMethod(form.payment_method),
     amount          |-> IF PaymentMethod(form.payment_method) = "pix"
                         THEN price_with_pix_discount(total) ELSE total,
     amount_original |-> total,
     status          |-> DefaultStatus]

\* NewItem without qty=qty_i: the column default, 1, is stored.
NewItemDefaultQty(order_id, line) ==
    [order_id              |-> order_id,
     product_id            |-> line.product_id,
     product_name_snapshot |-> products[line.product_id].name,
     unit_price            |-> products[line.product_id].price,
     qty                   |-> 1]

\* The OrderItem row of lines 327-333 for one kept line.
NewItem(order_id, line) ==
    [order_id              |-> order_id,
     product_id            |-> line.product_id,
     product_name_snapshot |-> products[line.product_id].name,
     unit_price            |-> products[line.product_id].price,
     qty                   |-> line.qty]

\* ContactMissing looking at the name alone.
ContactMissingNameOnly(form) == Strip(form.customer_name) = ""

\* not customer_name or not whatsapp
ContactMissing(form) == Strip(form.customer_name) = "" \/ Strip(form.whatsapp) = ""

create_order(form) ==
    LET req == [customer_name |-> form.customer_name, whatsapp |-> form.whatsapp]
    IN
    /\ UNCHANGED <<products, images, pct, inflight>>
    /\ IF cart = EmptyCart
       THEN /\ resp' = ResponseWith("create_order", 302, "Carrinho vazio.", req)
            /\ UNCHANGED <<cart, orders, order_items>>
       ELSE IF ContactMissing(form)
       THEN /\ resp' = ResponseWith("create_order", 302,
                                    "Informe seu nome e WhatsApp para finalizar.", req)
            /\ UNCHANGED <<cart, orders, order_items>>
       ELSE IF CartRaises(cart)
       THEN /\ resp' = ResponseWith("create_order", 500, "", req)
            /\ UNCHANGED <<cart, orders, order_items>>
       ELSE LET lines == CartLines(cart, products)
                keys  == SetToSeq(DOMAIN lines)
                oid   == Len(orders) + 1
            IN  IF DOMAIN lines = {}
                THEN /\ resp' = ResponseWith("create_order", 302, "Carrinho vazio.", req)
                     /\ UNCHANGED <<cart, orders, order_items>>
                ELSE /\ Len(orders) < MaxOrders
                     /\ Len(order_items) + Len(keys) <= MaxOrderItems
                     /\ orders' = Append(orders, NewOrder(form, CartTotal(lines)))
                     /\ order_items' = order_items \o
                            [i \in 1..Len(keys) |-> NewItem(oid, lines[keys[i]])]
                     /\ cart' = EmptyCart
                     /\ resp' = ResponseWith("create_order", 302, "order_success", req)

(***************************************************************************)
(* POST /pedido/criar in two steps, for runs in which another worker's     *)
(* request is served between the Product reads of the loop (line 296) and  *)
(* db.session.commit() (line 335).  inflight holds the handler's locals.   *)
(***************************************************************************)
\* items.append((product, qty_i, product.price)): the Product object read at
\* line 296 stays in the session's identity map, so product.id and
\* product.name at lines 329-330 are the values read here.
ReadItem(line) ==
    [product_id            |-> line.product_id,
     product_name_snapshot |-> products[line.product_id].name,
     unit_price            |-> products[line.product_id].price,
     qty                   |-> line.qty]

\* Lines 274-306: the checks and the loop; nothing is written yet.
create_order_read(form) ==
    LET req == [customer_name |-> form.customer_name, whatsapp |-> form.whatsapp]
    IN
    /\ inflight = NoRequest
    /\ UNCHANGED <<products, images, cart, orders, order_items, pct>>
    /\ IF cart = EmptyCart
       THEN /\ resp' = ResponseWith("create_order", 302, "Carrinho vazio.", req)
            /\ UNCHANGED inflight
       ELSE IF ContactMissing(form)
       THEN /\ resp' = ResponseWith("create_order", 302,
                                    "Informe seu nome e WhatsApp para finalizar.", req)
            /\ UNCHANGED inflight
       ELSE IF CartRaises(cart)
       THEN /\ resp' = ResponseWith("create_order", 500, "", req)
            /\ UNCHANGED inflight
       ELSE LET lines == CartLines(cart, products)
                keys  == SetToSeq(DOMAIN lines)
            IN  IF DOMAIN lines = {}
                THEN /\ resp' = ResponseWith("create_order", 302, "Carrinho vazio.", req)
                     /\ UNCHANGED inflight
                ELSE /\ Len(orders) < MaxOrders
                     /\ Len(order_items) + Len(keys) <= MaxOrderItems
                     /\ inflight' = [form  |-> form,
                                     items |-> [i \in 1..Len(keys) |->
                                                   ReadItem(lines[keys[i]])],
                                     total |-> CartTotal(lines)]
                     /\ UNCHANGED resp

\* Whether the commit of the OrderItem rows is refused: only a store that
\* enforces order_item.product_id -> product.id can refuse, and only when
\* the Product row of some item is gone.
InsertForeignKeyOutcomes(items) ==
    IF \E i \in 1..Len(items) : items[i].product_id \notin DOMAIN products
    THEN {FALSE, TRUE}
    ELSE {FALSE}

\* The OrderItem row of lines 327-333 for one tuple of items.
NewItemOf(order_id, item) ==
    [order_id              |-> order_id,
     product_id            |-> item.product_id,
     product_name_snapshot |-> item.product_name_snapshot,
     unit_price            |-> item.unit_price,
     qty                   |-> item.qty]

\* Lines 308-337: the rows are built from the locals and committed; there
\* is no second look at the catalog.  A refused commit raises, the request
\* answers 500 and the session cart is not cleared.
create_order_commit ==
    LET form == inflight.form
        req  == [customer_name |-> form.customer_name, whatsapp |-> form.whatsapp]
        oid  == Len(orders) + 1
    IN
    /\ inflight # NoRequest
    /\ inflight' = NoRequest
    /\ UNCHANGED <<products, images, pct>>
    /\ \E refused \in InsertForeignKeyOutcomes(inflight.items) :
          IF refused
          THEN /\ resp' = ResponseWith("create_order", 500, "", req)
               /\ UNCHANGED <<cart, orders, order_items>>
          ELSE /\ orders' = Append(orders, NewOrder(form, inflight.total))
               /\ order_items' = order_items \o
                      [i \in 1..Len(inflight.items) |-> NewItemOf(oid, inflight.items[i])]
               /\ cart' = EmptyCart
               /\ resp' = ResponseWith("create_order", 302, "order_success", req)

(***************************************************************************)
(* Admin catalog.  files is the list of uploaded file extensions.          *)
(***************************************************************************)
ALLOWED_EXTENSIONS == {"jpg", "jpeg", "png", "webp"}

allowed_file(ext) == ext \in ALLOWED_EXTENSIONS

\* The ProductImage rows added for the accepted files of an upload.
Uploaded(files, product_id) ==
    LET ok   == SelectSeq(files, allowed_file)
        base == MaxOf({im.id : im \in images})
    IN  {[id |-> base + i, product_id |-> product_id] : i \in 1..Len(ok)}

admin_products_new_post(form) ==
    /\ UNCHANGED <<cart, orders, order_items, pct, inflight>>
    /\ IF PriceRaises(form.price)
       THEN /\ resp' = Response("admin_products_new_post", 302, "Preco invalido.")
            /\ UNCHANGED <<products, images>>
       ELSE IF Strip(form.name) = ""
       THEN /\ resp' = Response("admin_products_new_post", 302, "Informe o nome.")
            /\ UNCHANGED <<products, images>>
       ELSE \E id \in {n \in ProductIds : n > MaxOf(DOMAIN products)} :
            LET p  == [name      |-> Strip(form.name),
                       price     |-> PriceOf(form.price),
                       is_active |-> form.is_active = "on"]
                up == Uploaded(form.files, id)
            IN  /\ Cardinality(images \cup up) <= MaxImages
                /\ products' = [i \in DOMAIN products \cup {id} |->
                                   IF i = id THEN p ELSE products[i]]
                /\ images' = images \cup up
                /\ resp' = Response("admin_products_new_post", 302, "Produto criado")

admin_products_edit_post(product_id, form) ==
    /\ UNCHANGED <<cart, orders, order_items, pct, inflight>>
    /\ IF product_id \notin DOMAIN products
       THEN /\ resp' = Response("admin_products_edit_post", 404, "")
            /\ UNCHANGED <<products, images>>
       ELSE IF PriceRaises(form.price)
       THEN /\ resp' = Response("admin_products_edit_post", 302, "Preco invalido.")
            /\ UNCHANGED <<products, images>>
       ELSE LET p  == [name      |-> Strip(form.name),
                       price     |-> PriceOf(form.price),
                       is_active |-> form.is_active = "on"]
                up == Uploaded(form.files, product_id)
            IN  /\ Cardinality(images \cup up) <= MaxImages
                /\ products' = [products EXCEPT ![product_id] = p]
                /\ images' = images \cup up
                /\ resp' = Response("admin_products_edit_post", 302, "Produto atualizado")

admin_product_image_delete(image_id) ==
    /\ UNCHANGED <<products, cart, orders, order_items, pct, inflight>>
    /\ IF image_id \notin {im.id : im \in images}
       THEN /\ resp' = Response("admin_product_image_delete", 404, "")
            /\ UNCHANGED images
       ELSE /\ images' = {im \in images : im.id # image_id}
            /\ resp' = Response("admin_product_image_delete", 302, "Foto removida")

\* Whether the commit of the delete is refused: only a store that enforces
\* order_item.product_id -> product.id can refuse, and only while some
\* OrderItem refers to the product.
ForeignKeyOutcomes(product_id) ==
    IF \E i \in 1..Len(order_items) : order_items[i].product_id = product_id
    THEN {FALSE, TRUE}
    ELSE {FALSE}

admin_products_delete(product_id) ==
    /\ UNCHANGED <<cart, orders, order_items, pct, inflight>>
    /\ IF product_id \notin DOMAIN products
       THEN /\ resp' = Response("admin_products_delete", 404, "")
            /\ UNCHANGED <<products, images>>
       ELSE \E enforced \in ForeignKeyOutcomes(product_id) :
            IF enforced
            THEN /\ resp' = Response("admin_products_delete", 500, "")
                 /\ UNCHANGED <<products, images>>
            ELSE /\ products' = [i \in DOMAIN products \ {product_id} |-> products[i]]
                 /\ images' = {im \in images : im.product_id # product_id}
                 /\ resp' = Response("admin_products_delete", 302, "Produto excluido")

(***************************************************************************)
(* POST /admin/pedidos/<order_id>/status                                   *)
(***************************************************************************)
\* StatusGiven without the "if status:" test.
StatusGivenAlways(status) == TRUE

\* if status: (after .strip())
StatusGiven(status) == Strip(status) # ""

admin_order_status(order_id, status) ==
    /\ UNCHANGED <<products, images, cart, order_items, pct, inflight>>
    /\ IF order_id \notin 1..Len(orders)
       THEN /\ resp' = Response("admin_order_status", 404, "")
            /\ UNCHANGED orders
       ELSE IF StatusGiven(status)
       THEN /\ orders' = [orders EXCEPT ![order_id].status = Strip(status)]
            /\ resp' = ResponseWith("admin_order_status", 302, "Status atualizado",
                                    [order_id |-> order_id, status |-> status])
       ELSE /\ UNCHANGED orders
            /\ resp' = ResponseWith("admin_order_status", 302, "",
                                    [order_id |-> order_id, status |-> status])

(***************************************************************************)
(* The requests the model submits.                                         *)
(***************************************************************************)
\* Forms with at most n fields over the given field names and raw values.
Forms(fields, vals, n) ==
    UNION {[F -> vals] : F \in {G \in SUBSET fields : Cardinality(G) <= n}}

OrderForm(name, whatsapp, method) ==
    [customer_name |-> name, whatsapp |-> whatsapp, payment_method |-> method]

OrderForms ==
    {OrderForm(" Ana ", "119 ", m) : m \in {"pix", "card", "boleto"}}
        \cup {OrderForm(" ", "119 ", "pix"), OrderForm(" Ana ", "", "card")}

ProductForm(name, price, active, files) ==
    [name |-> name, price |-> price, is_active |-> active, files |-> files]

ProductForms ==
    {ProductForm(" Nova ", PriceNum(50), "on", <<>>),
     ProductForm(" Nova ", PriceNum(50), "", <<>>),
     ProductForm(" Nova ", PriceBad, "on", <<>>)}

ProductFormsWide ==
    [name : {" ", " Nova "}, price : {PriceBad, PriceEmpty, PriceNum(-5000), PriceNum(1005)},
     is_active : {"on", ""}, files : {<<>>, <<"jpg", "gif">>}]

StatusInputs == {" ", " Pago "}

(***************************************************************************)
(* Spec: the whole shop, with small quantities.                            *)
(***************************************************************************)
Next ==
    \/ cart_view
    \/ \E p \in ProductIds, raw \in {QtyInt(2), QtyBad} : cart_add(p, raw, MaxCartQty)
    \/ \E form \in Forms({Field(TRUE, Str(n)) : n \in ProductIds},
                         {QtyInt(0), QtyInt(2)}, 1) : cart_update(form)
    \/ cart_clear
    \/ \E form \in OrderForms : create_order(form)
    \/ \E form \in ProductForms : admin_products_new_post(form)
    \/ \E p \in ProductIds, form \in ProductForms : admin_products_edit_post(p, form)
    \/ \E i \in 1..MaxImages : admin_product_image_delete(i)
    \/ \E p \in ProductIds : admin_products_delete(p)
    \/ \E o \in 1..MaxOrders, s \in StatusInputs : admin_order_status(o, s)

Spec == Init /\ [][Next]_vars

(***************************************************************************)
(* SpecCart: the cart handlers alone, with quantities around the clamp     *)
(* and field names that are no product id.                                 *)
(***************************************************************************)
CartFields == {Field(TRUE, k) : k \in CartKeys} \cup {Field(FALSE, "csrf")}

CartQtys == {QtyInt(-1), QtyInt(150), QtyBad}

NextCart ==
    \/ cart_view
    \/ \E raw \in {QtyInt(-3), QtyEmpty, QtyBad} : cart_add(1, raw, MaxCartQty)
    \/ \E raw \in {QtyInt(99), QtyInt(150)} : cart_add(1, raw, MaxCartQtyWide)
    \/ \E form \in Forms(CartFields, CartQtys, 2) : cart_update(form)
    \/ cart_clear

SpecCart == Init /\ [][NextCart]_vars

(***************************************************************************)
(* SpecPrice: the discount helper over every price up to MaxPriceCents and *)
(* every configured percent, as GET /checkout renders it.                  *)
(***************************************************************************)
InitPrice ==
    /\ \E price \in 0..MaxPriceCents :
          products = [i \in ProductIds |->
                         [name |-> SeedName, price |-> price, is_active |-> TRUE]]
    /\ images = {}
    /\ cart = EmptyCart
    /\ orders = <<>>
    /\ order_items = <<>>
    /\ pct \in 0..100
    /\ resp = Response("start", 200, "")
    /\ inflight = NoRequest

NextPrice ==
    \/ cart_add(1, QtyInt(1), MaxCartQty)
    \/ checkout

SpecPrice == InitPrice /\ [][NextPrice]_vars

(***************************************************************************)
(* SpecAdmin: the admin catalog handlers, with blank names, negative and   *)
(* unparsable prices and uploads.                                          *)
(***************************************************************************)
NextAdmin ==
    \/ \E form \in ProductFormsWide : admin_products_new_post(form)
    \/ \E p \in ProductIds, form \in ProductFormsWide : admin_products_edit_post(p, form)
    \/ \E i \in 1..MaxImages : admin_product_image_delete(i)
    \/ \E p \in ProductIds : admin_products_delete(p)

SpecAdmin == Init /\ [][NextAdmin]_vars

(***************************************************************************)
(* SpecRace: create_order in its two steps, with the admin's delete and    *)
(* edit (which can deactivate) served by another worker in between.        *)
(***************************************************************************)
NextRace ==
    \/ \E p \in ProductIds : cart_add(p, QtyInt(1), MaxCartQty)
    \/ \E form \in OrderForms : create_order_read(form)
    \/ create_order_commit
    \/ \E p \in ProductIds, form \in ProductForms : admin_products_edit_post(p, form)
    \/ \E p \in ProductIds : admin_products_delete(p)

SpecRace == Init /\ [][NextRace]_vars

(***************************************************************************)
(* Properties.                                                             *)
(***************************************************************************)
\* The cart lines whose product exists and is active.
SurvivingKeys(c, prods) ==
    {k \in DOMAIN c : \E n \in DOMAIN prods : Str(n) = k /\ prods[n].is_active}

\* The product a surviving cart key names.
ProductOfKey(k, prods) == CHOOSE n \in DOMAIN prods : Str(n) = k

\* This step is a create_order request answered with the success redirect.
OrderCreatedStep == resp'.op = "create_order" /\ resp'.flash = "order_success"

\* The OrderItem rows a step adds.
AddedItems == (Len(order_items) + 1)..Len(order_items')

\* C1: a successful create_order persists exactly one new Order and exactly
\* one OrderItem per cart line whose product exists and is active, the item
\* carrying the line's quantity and the product's name and price as they are
\* at that moment; other lines give no item; the cart is empty afterwards.
C1_CreateOrderPersists ==
    [][OrderCreatedStep =>
         LET kept == SurvivingKeys(cart, products)
             oid  == Len(orders) + 1
         IN  /\ kept # {}
             /\ Strip(resp'.arg.customer_name) # ""
             /\ Strip(resp'.arg.whatsapp) # ""
             /\ Len(orders') = oid
             /\ SubSeq(orders', 1, Len(orders)) = orders
             /\ Len(order_items') = Len(order_items) + Cardinality(kept)
             /\ SubSeq(order_items', 1, Len(order_items)) = order_items
             /\ \A k \in kept :
                   LET n == ProductOfKey(k, products)
                   IN  Cardinality({i \in AddedItems :
                           order_items'[i] =
                               [order_id              |-> oid,
                                product_id            |-> n,
                                product_name_snapshot |-> products[n].name,
                                unit_price            |-> products[n].price,
                                qty                   |-> cart[k]]}) = 1
             /\ \A i \in AddedItems :
                   Str(order_items'[i].product_id) \in kept
             /\ cart' = EmptyCart]_vars

\* C1 witness: a checkout has succeeded from a cart that held a line of a
\* product edited since the catalog was seeded: the order's one item carries
\* the edited name and price.
C1_Witness ==
    /\ resp.op = "create_order" /\ resp.flash = "order_success"
    /\ cart = EmptyCart
    /\ \E i \in 1..Len(order_items) :
          /\ order_items[i].order_id = Len(orders)
          /\ order_items[i].product_name_snapshot = "Nova"
          /\ order_items[i].qty = 2

\* The OrderItem rows of an order.
ItemsOf(o) == {i \in 1..Len(order_items) : order_items[i].order_id = o}

\* C2: in every reachable state every Order's amount_original is the sum of
\* unit_price * qty over its own OrderItems; its amount is amount_original
\* for 'card' and amount_original reduced by the configured percent, rounded
\* to a whole cent, for 'pix'.
C2_OrderAmounts ==
    \A o \in 1..Len(orders) :
        LET ord == orders[o]
            sum == SumOver(ItemsOf(o),
                           [i \in ItemsOf(o) |->
                               order_items[i].unit_price * order_items[i].qty])
            exact == ord.amount_original * (100 - pct)
        IN  /\ ord.amount_original = sum
            /\ ord.payment_method \in {"pix", "card"}
            /\ ord.payment_method = "card" => ord.amount = ord.amount_original
            /\ ord.payment_method = "pix" =>
                  IF pct <= 0 THEN ord.amount = ord.amount_original
                  ELSE /\ 100 * ord.amount - exact <= 50
                       /\ exact - 100 * ord.amount <= 50

\* C2 witness: a discounted 'pix' order and a 'card' order both exist, and
\* the product of the pix order's item is no longer priced as it was sold.
C2_Witness ==
    /\ Len(orders) = 2
    /\ orders[1].payment_method = "pix"
    /\ orders[1].amount < orders[1].amount_original
    /\ orders[2].payment_method = "card"
    /\ \E i \in ItemsOf(1) :
          LET n == order_items[i].product_id
          IN  n \notin DOMAIN products \/ products[n].price # order_items[i].unit_price

\* C3: a create_order request that is rejected (empty cart, no line of an
\* existing active product, or blank name or contact after trimming) creates
\* no Order, no OrderItem and leaves the cart as it was.
C3_RejectedOrderChangesNothing ==
    [][resp'.op = "create_order" =>
         LET rejected ==
                 \/ cart = EmptyCart
                 \/ SurvivingKeys(cart, products) = {}
                 \/ Strip(resp'.arg.customer_name) = ""
                 \/ Strip(resp'.arg.whatsapp) = ""
         IN  /\ rejected => resp'.flash # "order_success"
             /\ resp'.flash # "order_success" =>
                   /\ orders' = orders
                   /\ order_items' = order_items
                   /\ cart' = cart]_vars

\* C3 witness: a checkout was refused with a cart whose only line is of a
\* product that is now missing or inactive; the cart still holds the line.
C3_Witness ==
    /\ resp.op = "create_order"
    /\ resp.flash = "Carrinho vazio."
    /\ Strip(resp.arg.customer_name) # "" /\ Strip(resp.arg.whatsapp) # ""
    /\ cart # EmptyCart
    /\ SurvivingKeys(cart, products) = {}

\* C4: once an Order and its OrderItems exist no step changes any Order
\* field other than status, nor any OrderItem; a status changes only by
\* admin_order_status for that order with a non-blank status, and a blank
\* status changes nothing.
C4_OrdersImmutable ==
    [][/\ Len(orders') >= Len(orders)
       /\ Len(order_items') >= Len(order_items)
       /\ SubSeq(order_items', 1, Len(order_items)) = order_items
       /\ \A o \in 1..Len(orders) :
             /\ [orders'[o] EXCEPT !.status = orders[o].status] = orders[o]
             /\ orders'[o].status # orders[o].status =>
                   /\ resp'.op = "admin_order_status"
                   /\ resp'.arg.order_id = o
                   /\ Strip(resp'.arg.status) # ""
                   /\ orders'[o].status = Strip(resp'.arg.status)
       /\ (resp'.op = "admin_order_status" /\ resp'.status = 302
             /\ Strip(resp'.arg.status) = "") => orders' = orders
       /\ (resp'.op = "admin_order_status" /\ resp'.status = 302
             /\ Strip(resp'.arg.status) # "") =>
                orders'[resp'.arg.order_id].status = Strip(resp'.arg.status)]_vars

\* C4 witness: the first order is marked paid, a later checkout made a
\* second order, and the product the first order sold has since been deleted
\* or edited, the item still holding the name and price it was sold at.
C4_Witness ==
    /\ Len(orders) = 2
    /\ orders[1].status = "Pago"
    /\ orders[2].status = DefaultStatus
    /\ \E i \in ItemsOf(1) :
          LET n == order_items[i].product_id
          IN  /\ order_items[i].product_name_snapshot = SeedName
              /\ order_items[i].unit_price = SeedPrice
              /\ n \in DOMAIN products => products[n].name # SeedName

\* The form of a cart_update step and the cart keys it names.
UpdateForm == resp'.arg.form

NamedKeys == {f.pid : f \in {g \in DOMAIN UpdateForm : g.qty}}

\* Cart lines the submitted form does not name are as they were.
UnnamedLinesKept ==
    \A k \in (DOMAIN cart \cup DOMAIN cart') \ NamedKeys :
        k \in DOMAIN cart /\ k \in DOMAIN cart' /\ cart'[k] = cart[k]

\* C5: viewing the cart never raises, lists exactly the cart lines whose
\* product exists and is active, and totals price * qty over those lines.
C5_ViewNeverFails ==
    resp.op = "cart_view" =>
        LET kept == SurvivingKeys(cart, products)
        IN  /\ resp.status = 200
            /\ DOMAIN resp.arg.items = kept
            /\ \A k \in kept :
                  resp.arg.items[k].qty = cart[k]
            /\ resp.arg.total =
                  SumOver(kept, [k \in kept |->
                      products[ProductOfKey(k, products)].price * cart[k]])

\* C6: every quantity stored in the cart is between 1 and 99.
C6_QuantitiesClamped ==
    \A k \in DOMAIN cart : QtyMin <= cart[k] /\ cart[k] <= QtyMax

\* C7 as stated: for each submitted entry a non-positive or unparsable
\* quantity removes the line, any other is clamped to [1, 99] and replaces
\* the line; lines not named are unchanged.
C7_UpdateAsStated ==
    [][resp'.op = "cart_update" =>
         /\ \A f \in DOMAIN UpdateForm : f.qty =>
               LET v == UpdateForm[f]
               IN  IF v.kind # "int" \/ v.v <= 0
                   THEN f.pid \notin DOMAIN cart'
                   ELSE /\ f.pid \in DOMAIN cart'
                        /\ cart'[f.pid] = (IF v.v > QtyMax THEN QtyMax ELSE v.v)
         /\ UnnamedLinesKept]_vars

\* C7 amended: a non-positive quantity removes the line; an unparsable
\* quantity sets the line to 1; any other quantity is clamped to [1, 99] and
\* replaces the line; lines not named are unchanged.
C7_UpdateAmended ==
    [][resp'.op = "cart_update" =>
         /\ \A f \in DOMAIN UpdateForm : f.qty =>
               LET v == UpdateForm[f]
               IN  IF v.kind = "int" /\ v.v <= 0
                   THEN f.pid \notin DOMAIN cart'
                   ELSE /\ f.pid \in DOMAIN cart'
                        /\ cart'[f.pid] =
                              (IF v.kind # "int" THEN 1
                               ELSE IF v.v > QtyMax THEN QtyMax ELSE v.v)
         /\ UnnamedLinesKept]_vars

\* C7 witness: an update named two lines, one with an unparsable quantity
\* (now 1) and one with a quantity over 99 (now 99), while a third line it
\* did not name kept a quantity no update could have written.
C7_Witness ==
    /\ resp.op = "cart_update"
    /\ \E f, g \in DOMAIN resp.arg.form :
          /\ f.qty /\ g.qty
          /\ resp.arg.form[f].kind = "bad" /\ cart[f.pid] = 1
          /\ resp.arg.form[g].kind = "int" /\ resp.arg.form[g].v > QtyMax
          /\ cart[g.pid] = QtyMax
    /\ \E k \in DOMAIN cart : cart[k] \notin {1, QtyMax}

\* The discounted total GET /checkout has rendered.
Quoted == resp.op = "checkout" /\ resp.status = 200

\* C8 as stated: the discounted price is at most the price, and equals it
\* if and only if the percent is 0.
C8_DiscountAsStated ==
    Quoted =>
        /\ resp.arg.total_pix <= resp.arg.total
        /\ (resp.arg.total_pix = resp.arg.total) <=> (pct = 0)

\* C8 amended: the discounted price is at most the price; it equals the
\* price when the discount, price * percent / 100, is less than half a cent
\* (so whenever the percent is 0) and is strictly below the price when the
\* discount is more than half a cent.
C8_DiscountAmended ==
    Quoted =>
        /\ resp.arg.total_pix <= resp.arg.total
        /\ resp.arg.total * pct < 50 => resp.arg.total_pix = resp.arg.total
        /\ resp.arg.total * pct > 50 => resp.arg.total_pix < resp.arg.total

\* C8 witness: a discount of more than half a cent and less than a cent.
C8_Witness ==
    /\ Quoted
    /\ pct > 0
    /\ resp.arg.total * pct > 50 /\ resp.arg.total * pct < 100
    /\ resp.arg.total_pix = resp.arg.total - 1

\* num/den rounded to a whole number, an exact half always up.
QuantizeHalfUp(num, den) ==
    LET q == num \div den
        r == num % den
    IN  IF 2 * r >= den THEN q + 1 ELSE q

\* C9: for percent <= 0 the price is returned unchanged; otherwise price *
\* (100 - percent) / 100 rounded to the cent, an exact half cent rounding up.
C9_DiscountHalfUp ==
    Quoted =>
        resp.arg.total_pix =
            (IF pct <= 0 THEN resp.arg.total
             ELSE QuantizeHalfUp(resp.arg.total * (100 - pct), 100))

\* C10: every stored Product has a non-blank name and a price >= 0.
C10_CatalogValid ==
    \A n \in DOMAIN products :
        products[n].name # "" /\ products[n].price >= 0

\* This step is the commit step of a create_order request.
CommitStep == inflight # NoRequest /\ inflight' = NoRequest

\* C11: when a product delete or deactivation is served between the reads
\* and the commit of a create_order request, the request is not aborted and
\* every OrderItem it commits refers to a product that exists and is active
\* at the moment of the commit.
C11_VanishedItemsExcluded ==
    [][CommitStep =>
          /\ resp'.status # 500
          /\ \A i \in (Len(order_items) + 1)..Len(order_items') :
                /\ order_items'[i].product_id \in DOMAIN products'
                /\ products'[order_items'[i].product_id].is_active]_vars
====
